---- MODULE Spec2Model ----
(***************************************************************************)
(* Process inspection substrate of udbg: the Linux Process of              *)
(* src/nix/process.rs (procfs accessors, /proc/<pid>/mem reads and writes, *)
(* the waitpid classifier) and the Windows Process of src/os/windows/mod.rs*)
(* (Handle ownership, ReadProcessMemory / WriteProcessMemory, MemoryIter,  *)
(* the toolhelp process walk, create_debug_process).                       *)
(*                                                                         *)
(* Every component keeps its own variables; a component's specification    *)
(* (SpecWait, SpecLinux, ...) runs that component's operations from Init   *)
(* and leaves the other components' variables alone.                       *)
(***************************************************************************)
EXTENDS Integers, Sequences, FiniteSets, TLC

VARIABLES
    wait,       \* Process::wait: the last call (waitpid's outcome, the value returned)
    target,     \* the Linux target process: alive, and the bytes of its address space
    chan,       \* Process.mem, the cached /proc/<pid>/mem channel: open or not, file position
    lastOp,     \* the last call made on a Process and what it returned
    prot,       \* Windows target: the protection of each page (0: not committed)
    wcall,      \* the last protect_memory / write_memory call and what it returned
    iter,       \* a MemoryIter: its probe address, the regions it has yielded
    handles,    \* Windows kernel handles: state, live Handle owners, CloseHandle calls
    current,    \* live Process objects made by Process::current (pseudo handle)
    hlast,      \* the outcome of the last Handle / Process operation
    walk,       \* a ProcessInfo::enumerate walk: snapshot, position, elements yielded
    rwlock,     \* the RwLock around Process.mem: threads holding shared / exclusive access
    memcell,    \* Process.mem as threads see it: the installed File, its position, history
    thr         \* each thread's position in Process::read, its arguments and its result

vars == <<wait, target, chan, lastOp, prot, wcall, iter, handles, current, hlast, walk,
         rwlock, memcell, thr>>

vWait  == <<wait>>
vLinux == <<target, chan, lastOp>>
vWinMem == <<prot, wcall, iter>>
vHandle == <<handles, current, hlast>>
vWalk   == <<walk>>
vRead   == <<rwlock, memcell, thr>>

\* what the operations of one component leave alone
notWait   == <<vLinux, vWinMem, vHandle, vWalk, vRead>>
notLinux  == <<vWait, vWinMem, vHandle, vWalk, vRead>>
notWinMem == <<vWait, vLinux, vHandle, vWalk, vRead>>
notHandle == <<vWait, vLinux, vWinMem, vWalk, vRead>>
notWalk   == <<vWait, vLinux, vWinMem, vHandle, vRead>>
notRead   == <<vWait, vLinux, vWinMem, vHandle, vWalk>>

(***************************************************************************)
(* Bounds                                                                  *)
(***************************************************************************)
MaxTid == 2         \* thread ids are 1..MaxTid
MaxLen == 3         \* longest content of a procfs file, in bytes
MaxBuf == 2         \* longest buffer handed to read / write
MemTop == 2         \* addresses 0..MemTop-1 of the target are mapped, MemTop.. are not
WinPages == 3       \* pages of the Windows target's user address space
PageSize == 2       \* bytes in a page
MaxHandles == 3     \* kernel handles acquired in one run
MaxCurrent == 1     \* live Process objects made by Process::current
MaxSnap == 3        \* processes in a toolhelp snapshot
MaxThreads == 3     \* threads that call Process::read on one Process

Tids == 1..MaxTid

\* sequences over S of length n, and of length at most n
SeqOfLen(S, n) == [1..n -> S]
SeqUpTo(S, n) == UNION {SeqOfLen(S, k) : k \in 0..n}

(***************************************************************************)
(* Linux: Process::wait  (src/nix/process.rs 130-163)                      *)
(***************************************************************************)
\* Raw 32-bit status words: low byte (termination signal, core flag, 0x7f for
\* stopped), second byte (exit code or stop signal), upper 16 bits (ptrace event).
LowBytes  == {0, 9, 127, 137, 255}
MidBytes  == {0, 1, 5, 19, 255}
HighWords == {0, 1, 3, 4}
RawStatuses == { lo + 256 * mid + 65536 * hi :
                   lo \in LowBytes, mid \in MidBytes, hi \in HighWords }

PTRACE_EVENT_CLONE == 3
PTRACE_EVENT_EXEC  == 4

\* libc's status macros, bit for bit
ToI8(x) == IF x % 256 >= 128 THEN (x % 256) - 256 ELSE x % 256
WIFEXITED(s)    == s % 128 = 0
WEXITSTATUS(s)  == (s \div 256) % 256
WIFSIGNALED(s)  == ToI8((s % 128) + 1) >= 2
WTERMSIG(s)     == s % 128
WIFSTOPPED(s)   == s % 256 = 127
WSTOPSIG(s)     == (s \div 256) % 256
WIFCONTINUED(s) == s = 65535

WaitStatus(kind, val) == [kind |-> kind, val |-> val]

\* waitpid(-1, &mut status, opt): a reported child (tid > 0, status written), an
\* error (-1) or, with WNOHANG, no state change (0); in the last two the status
\* word keeps the 0 it was initialised with (line 131).
WaitpidOutcomes(nohang) ==
    {[tid |-> -1, status |-> 0]}
    \cup (IF nohang THEN {[tid |-> 0, status |-> 0]} ELSE {})
    \cup {[tid |-> t, status |-> s] : t \in Tids, s \in RawStatuses}

\* Lines 146-150: new_tid is an immutable binding initialised to 0 whose shared
\* reference is handed to ptrace, which writes the event message through it.
\* Writing through a shared reference to an immutable local is undefined
\* behaviour: the read of new_tid on line 150 yields the fetched message or the
\* 0 the compiler is entitled to assume.
NewTidRead(msg) == {0, msg}

\* Lines 136-161: the values wait may return for a status word
\* (pret: the return value of ptrace(PTRACE_GETEVENTMSG), msg: the message).
WaitOutcomes(status, pret, msg) ==
    IF WIFEXITED(status) THEN {WaitStatus("Exit", WEXITSTATUS(status))}
    ELSE IF WIFSIGNALED(status) THEN {WaitStatus("Signal", WTERMSIG(status))}
    ELSE IF WIFSTOPPED(status) THEN
        LET extra == (status \div 65536) % 65536 IN
        IF extra = PTRACE_EVENT_CLONE THEN
            IF pret < 0 THEN {WaitStatus("panic_geteventmsg", 0)}
            ELSE {WaitStatus("Clone", t) : t \in NewTidRead(msg)}
        ELSE IF extra = PTRACE_EVENT_EXEC THEN {WaitStatus("Exec", 0)}
        ELSE {WaitStatus("Stop", WSTOPSIG(status))}
    ELSE IF WIFCONTINUED(status) THEN {WaitStatus("Continue", 0)}
    ELSE {WaitStatus("panic_invalid", 0)}

InitWait ==
    wait = [called |-> FALSE, nohang |-> FALSE, tid |-> 0, status |-> 0,
            pret |-> 0, msg |-> 0, ret |-> WaitStatus("none", 0)]

\* Process::wait(opt)
\* line 147 runs only for a stop that carries the CLONE event
CallsGetEventMsg(status) ==
    /\ ~WIFEXITED(status) /\ ~WIFSIGNALED(status) /\ WIFSTOPPED(status)
    /\ (status \div 65536) % 65536 = PTRACE_EVENT_CLONE

Wait ==
    \E nohang \in BOOLEAN :
    \E w \in WaitpidOutcomes(nohang) :
    \E pret \in (IF CallsGetEventMsg(w.status) THEN {-1, 0} ELSE {0}) :
    \E msg \in (IF CallsGetEventMsg(w.status) /\ pret = 0 THEN Tids ELSE {0}) :
    \E r \in WaitOutcomes(w.status, pret, msg) :
        /\ wait' = [called |-> TRUE, nohang |-> nohang, tid |-> w.tid,
                    status |-> w.status, pret |-> pret, msg |-> msg, ret |-> r]
        /\ UNCHANGED notWait

NextWait == Wait

(***************************************************************************)
(* Linux: procfs accessors  (src/nix/process.rs 5-46)                      *)
(***************************************************************************)
NUL == 0
LF  == 10
EQ  == 61
CommFiles == {<<>>, <<97>>, <<97, LF>>, <<97, LF, 98>>}
ExePaths  == {<<47, 97>>}
\* every content of /proc/<pid>/cmdline up to MaxLen bytes over {NUL, "a"}
CmdlineFiles == SeqUpTo({NUL, 97}, MaxLen)
\* contents of /proc/<pid>/environ: "", "a=a", "a=a\0", "a=a=a\0", "a=\0b=a\0"
EnvironFiles == {<<>>, <<97, EQ, 97>>, <<97, EQ, 97, NUL>>,
                 <<97, EQ, 97, EQ, 97, NUL>>, <<97, EQ, NUL, 98, EQ, 97, NUL>>}

\* slice::split / str::split: the tokens between separators; n separators
\* give n + 1 tokens, an empty input gives one empty token
RECURSIVE split(_, _)
split(data, sep) ==
    IF \A i \in 1..Len(data) : data[i] # sep THEN <<data>>
    ELSE LET i == CHOOSE k \in 1..Len(data) :
                      data[k] = sep /\ \A j \in 1..(k - 1) : data[j] # sep
         IN  <<SubSeq(data, 1, i - 1)>> \o split(SubSeq(data, i + 1, Len(data)), sep)

\* std::fs::read(..).unwrap_or(vec![])  (lines 10, 36)
fs_read_or_empty(ok, data) == IF ok THEN data ELSE <<>>

\* read_lines (defined outside this file): the lines of a file, an error when the
\* file cannot be opened
read_lines(ok, data) ==
    IF ~ok THEN [ok |-> FALSE, lines |-> <<>>]
    ELSE LET toks == split(data, LF) IN
         [ok |-> TRUE,
          lines |-> IF toks[Len(toks)] = <<>> THEN SubSeq(toks, 1, Len(toks) - 1)
                    ELSE toks]

\* PidIter (defined outside this file) over an optional directory stream: the
\* numeric entries, none when the directory could not be opened
PidIter(ok, entries) == IF ok THEN entries ELSE <<>>

\* lines 14-16: while result.last().map(String::is_empty).unwrap_or(false) { pop }
RECURSIVE pop_while_last_empty(_)
pop_while_last_empty(result) ==
    IF Len(result) > 0 /\ result[Len(result)] = <<>>
    THEN pop_while_last_empty(SubSeq(result, 1, Len(result) - 1))
    ELSE result

\* mutant: `if` in place of `while`, one token popped at most
pop_trailing_empty_once(result) ==
    IF Len(result) > 0 /\ result[Len(result)] = <<>>
    THEN SubSeq(result, 1, Len(result) - 1)
    ELSE result

pop_trailing_empty(result) == pop_while_last_empty(result)

\* mutant: the tokens returned as split, no trimming
process_cmdline_untrimmed(ok, file) == split(fs_read_or_empty(ok, file), NUL)

\* process_cmdline (lines 9-18); from_utf8_unchecked keeps a token's bytes as
\* they are
process_cmdline(ok, file) ==
    pop_trailing_empty(split(fs_read_or_empty(ok, file), NUL))

EmptyMap == [k \in {} |-> <<>>]
MapInsert(m, k, v) == [x \in DOMAIN m \cup {k} |-> IF x = k THEN v ELSE m[x]]

\* the closure of lines 38-44 applied to one record: insert name -> the token
\* after the first "=", unwrap panicking when there is none
environ_closure(acc, b) ==
    LET i == split(b, EQ) IN
    IF acc.panic THEN acc
    ELSE IF Len(i) < 2 THEN [acc EXCEPT !.panic = TRUE]
    ELSE [acc EXCEPT !.map = MapInsert(acc.map, i[1], i[2])]

RECURSIVE drive(_, _, _)
drive(acc, items, n) ==
    IF n = 0 \/ items = <<>> THEN acc
    ELSE drive(environ_closure(acc, Head(items)), Tail(items), n - 1)

\* Iterator::map is lazy and line 44 ends the statement: the adapter is dropped
\* without a consumer, so it pulls this many of its items
pulled_by_dropped_adapter(items) == 0

\* process_environ (lines 35-46)
process_environ(ok, file) ==
    LET data   == fs_read_or_empty(ok, file)
        result == [panic |-> FALSE, map |-> EmptyMap]
        items  == split(data, NUL)
    IN  drive(result, items, pulled_by_dropped_adapter(items))

(***************************************************************************)
(* Linux: Process::read / Process::write  (src/nix/process.rs 86-104)      *)
(***************************************************************************)
MemBytes == {0, 1}
AddrSpace == 0..(MemTop + 1)
Mapped(a) == a \in 0..(MemTop - 1)

\* the count a read or write of /proc/<pid>/mem at addr transfers: the run of
\* mapped bytes from addr, at most len; -1 (EIO) when len > 0 and the first byte
\* is not mapped; 0 when the target's address space is gone
RECURSIVE run(_, _)
run(addr, len) == IF len = 0 \/ ~Mapped(addr) THEN 0 ELSE 1 + run(addr + 1, len - 1)
mem_rw(alive, addr, len) ==
    IF ~alive \/ len = 0 THEN 0
    ELSE IF run(addr, len) = 0 THEN -1 ELSE run(addr, len)

BaseOp == [op |-> "none", ok |-> FALSE, dead |-> FALSE, addr |-> 0, len |-> 0,
           input |-> <<>>, tag |-> "none", n |-> 0, data |-> <<>>, list |-> <<>>,
           map |-> EmptyMap, follows |-> FALSE, wbytes |-> <<>>]

\* a read at the file position `at`, 0 on any error (unwrap_or(0)): the position
\* read from, the count, the position afterwards
read_at(alive, at, len) ==
    LET r == mem_rw(alive, at, len)
        n == IF r > 0 THEN r ELSE 0
    IN  [at |-> at, n |-> n, pos |-> at + n]

\* mutant: no seek, the read starts where the channel's last read ended
read_mem_noseek(mem, alive, address, len) == read_at(alive, mem.pos, len)

\* read_mem (lines 86-88): seek to the address, then read
read_mem(mem, alive, address, len) == read_at(alive, address, len)

\* mutant: `result >= 0`
read_result_ge0(result, buf) ==
    IF result >= 0 THEN [tag |-> "Some", data |-> SubSeq(buf, 1, result)]
    ELSE [tag |-> "None", data |-> <<>>]

\* lines 96 and 383-387: if result > 0 { Some(&mut buf[..result]) } else { None }
read_result(result, buf) ==
    IF result > 0 THEN [tag |-> "Some", data |-> SubSeq(buf, 1, result)]
    ELSE [tag |-> "None", data |-> <<>>]

InitLinux ==
    /\ target = [alive |-> TRUE, mem |-> [a \in 0..(MemTop - 1) |-> 0]]
    /\ chan = [open |-> FALSE, pos |-> 0]
    /\ lastOp = BaseOp

\* files of /proc/<pid> can be opened only while the target exists; a live
\* target's file may still be refused (permissions)
Readable == IF target.alive THEN BOOLEAN ELSE {FALSE}

\* Process::name -> process_name (lines 5-7)
Name ==
    \E ok \in Readable, file \in CommFiles :
    LET f == read_lines(ok, file) IN
    /\ lastOp' = [BaseOp EXCEPT !.op = "name", !.ok = ok, !.dead = ~target.alive,
                    !.input = file,
                    !.tag = IF f.ok /\ f.lines # <<>> THEN "Some" ELSE "None",
                    !.data = IF f.ok /\ f.lines # <<>> THEN f.lines[1] ELSE <<>>]
    /\ UNCHANGED <<target, chan>>
    /\ UNCHANGED notLinux

\* Process::cmdline -> process_cmdline
Cmdline ==
    \E ok \in Readable, file \in CmdlineFiles :
    /\ lastOp' = [BaseOp EXCEPT !.op = "cmdline", !.ok = ok, !.dead = ~target.alive,
                    !.input = file, !.tag = "Vec", !.list = process_cmdline(ok, file)]
    /\ UNCHANGED <<target, chan>>
    /\ UNCHANGED notLinux

\* Process::image_path -> process_path (lines 20-23)
ImagePath ==
    \E ok \in Readable, path \in ExePaths :
    /\ lastOp' = [BaseOp EXCEPT !.op = "image_path", !.ok = ok, !.dead = ~target.alive,
                    !.input = path,
                    !.tag = IF ok THEN "Some" ELSE "None",
                    !.data = IF ok THEN path ELSE <<>>]
    /\ UNCHANGED <<target, chan>>
    /\ UNCHANGED notLinux

\* Process::environ -> process_environ
Environ ==
    \E ok \in Readable, file \in EnvironFiles :
    LET r == process_environ(ok, file) IN
    /\ lastOp' = [BaseOp EXCEPT !.op = "environ", !.ok = ok, !.dead = ~target.alive,
                    !.input = file,
                    !.tag = IF r.panic THEN "Panic" ELSE "Map", !.map = r.map]
    /\ UNCHANGED <<target, chan>>
    /\ UNCHANGED notLinux

\* Process::enum_thread -> process_tasks (lines 25-27, 115-117)
EnumThread ==
    \E ok \in Readable, n \in Tids :
    LET entries == [i \in 1..n |-> i] IN
    /\ lastOp' = [BaseOp EXCEPT !.op = "enum_thread", !.ok = ok, !.dead = ~target.alive,
                    !.input = entries, !.tag = "Iter", !.data = PidIter(ok, entries)]
    /\ UNCHANGED <<target, chan>>
    /\ UNCHANGED notLinux

\* Process::read (lines 90-98), called from one thread
Read ==
    \E address \in AddrSpace, len \in 0..MaxBuf :
    LET need     == ~chan.open
        opened   == target.alive              \* File::open("/proc/<pid>/mem")
        follows  == /\ lastOp.op = "write" /\ lastOp.tag = "Some"
                    /\ lastOp.n = Len(lastOp.input)
                    /\ lastOp.addr = address /\ len = Len(lastOp.input)
        wbytes   == IF follows THEN lastOp.input ELSE <<>>
        base     == [BaseOp EXCEPT !.op = "read", !.dead = ~target.alive,
                       !.addr = address, !.len = len,
                       !.follows = follows, !.wbytes = wbytes]
    IN
    IF need /\ ~opened
    THEN \* line 92: `?` returns None, nothing is installed
         /\ lastOp' = [base EXCEPT !.ok = FALSE, !.tag = "None"]
         /\ UNCHANGED <<target, chan, notLinux>>
    ELSE LET m   == read_mem(chan, target.alive, address, len)
             buf == [i \in 1..len |-> IF i <= m.n THEN target.mem[m.at + i - 1] ELSE 0]
             r   == read_result(m.n, buf)
         IN
         /\ chan' = [open |-> TRUE, pos |-> m.pos]
         /\ lastOp' = [base EXCEPT !.ok = TRUE, !.input = buf, !.n = m.n,
                         !.tag = r.tag, !.data = r.data]
         /\ UNCHANGED <<target, notLinux>>

\* Process::write (lines 100-104)
Write ==
    \E address \in AddrSpace, buf \in SeqUpTo(MemBytes, MaxBuf) :
    LET created == target.alive               \* File::create("/proc/<pid>/mem")
        w       == mem_rw(target.alive, address, Len(buf))
        base    == [BaseOp EXCEPT !.op = "write", !.dead = ~target.alive,
                      !.addr = address, !.len = Len(buf), !.input = buf]
    IN
    IF ~created \/ w < 0
    THEN /\ lastOp' = [base EXCEPT !.ok = created, !.tag = "None"]
         /\ UNCHANGED <<target, chan, notLinux>>
    ELSE /\ target' = [target EXCEPT !.mem =
                         [a \in DOMAIN target.mem |->
                            IF a >= address /\ a < address + w
                            THEN buf[a - address + 1] ELSE target.mem[a]]]
         /\ lastOp' = [base EXCEPT !.ok = TRUE, !.tag = "Some", !.n = w]
         /\ UNCHANGED <<chan, notLinux>>

\* Windows: <Process as ReadMemory>::read_memory over read_process_memory
\* (src/os/windows/mod.rs 305-316, 380-389).  ReadProcessMemory fills the whole
\* buffer and reports its length, or fails.
WinReadMemory ==
    \E addr \in {0}, buf \in SeqUpTo(MemBytes, MaxBuf), success \in BOOLEAN :
    LET readed == IF success THEN Len(buf) ELSE 0
        r      == IF success THEN readed ELSE 0          \* read_process_memory
        res    == read_result(r, buf)
    IN
    /\ lastOp' = [BaseOp EXCEPT !.op = "win_read", !.ok = success, !.addr = addr,
                    !.len = Len(buf), !.input = buf, !.n = r,
                    !.tag = res.tag, !.data = res.data]
    /\ UNCHANGED <<target, chan>>
    /\ UNCHANGED notLinux

\* the target exits: its /proc/<pid> entries and its address space are gone
TargetExit ==
    /\ target.alive
    /\ target' = [target EXCEPT !.alive = FALSE]
    /\ lastOp' = [BaseOp EXCEPT !.op = "exit"]
    /\ UNCHANGED <<chan, notLinux>>

NextLinux ==
    \/ Name \/ Cmdline \/ ImagePath \/ Environ \/ EnumThread
    \/ Read \/ Write \/ WinReadMemory \/ TargetExit

(***************************************************************************)
(* Linux: Process::read step by step, called from several threads          *)
(* (src/nix/process.rs 48-58, 86-98)                                       *)
(*                                                                         *)
(*   91  if self.mem.read().unwrap().is_none() {                           *)
(*   92      *self.mem.write().unwrap() = Some(Box::new(File::open(..).ok()?)); *)
(*   93  }                                                                 *)
(*   94  self.mem.write().unwrap().as_mut().and_then(move |f| {            *)
(*   95      let result = Self::read_mem(f, address, buf);                 *)
(*   96      if result > 0 { Some(&mut buf[..result]) } else { None }      *)
(*   97  })                                                                *)
(*                                                                         *)
(* The guard made by the condition of line 91 is a temporary of the        *)
(* condition and is dropped before the body of the `if`; line 92 evaluates *)
(* the assigned value (File::open) before the place it assigns to (the     *)
(* write guard), and drops that guard at the end of the statement; the     *)
(* guard of line 94 lives until the function returns.  Each lock           *)
(* acquisition, each system call and each release is one step.             *)
(***************************************************************************)
Threads == 1..MaxThreads

\* the addresses threads read from: the first and the last mapped byte
ThreadAddrs == {0, MemTop - 1}

\* std::sync::RwLock: any number of readers, or one writer
can_read(g)  == g.writer = 0
can_write(g) == g.writer = 0 /\ g.readers = {}
lock_read(g, t)  == [g EXCEPT !.readers = @ \cup {t}]
lock_write(g, t) == [g EXCEPT !.writer = t]
\* a guard is dropped
unlock(g, t) == [readers |-> g.readers \ {t},
                 writer  |-> IF g.writer = t THEN 0 ELSE g.writer]
\* the thread holds a guard
Holds(t) == t \in rwlock.readers \/ rwlock.writer = t

\* mutant: the guard of line 91 outlives the condition
check_guard_kept(g, t) == g

\* line 91: the read guard is dropped when the condition has been evaluated
check_guard_dropped(g, t) == unlock(g, t)

\* mutant: line 94 takes shared access
body_access_shared(g, t) == [ok |-> can_read(g), g |-> lock_read(g, t)]

\* line 94: self.mem.write(): whether the guard can be taken, the lock once taken
body_access(g, t) == [ok |-> can_write(g), g |-> lock_write(g, t)]

\* mutant: the condition of line 91 always holds
is_none_always(cell) == TRUE

\* line 91: Option::is_none on the cell
is_none(cell) == cell.file = 0

\* a thread outside read; the fields of a call: the address asked for, what
\* line 91 saw, whether File::open was called, the position the File was read
\* from, the value to return
IdleThread ==
    [pc |-> "idle", address |-> 0, saw |-> FALSE, tried |-> FALSE,
     at |-> 0, tag |-> "none", data |-> <<>>]

\* Process::from_pid (lines 54-58): mem is RwLock::new(None); nothing is opened.
\* memcell.file: 0 for None, else the File in the cell, named by the thread that
\* opened it (a thread opens again only after it found the cell empty);
\* opens, installs: the successful File::open calls and the assignments so far
InitRead ==
    /\ rwlock = [readers |-> {}, writer |-> 0]
    /\ memcell = [file |-> 0, pos |-> 0, opens |-> 0, installs |-> 0]
    /\ thr = [t \in Threads |-> IdleThread]

\* a thread calls read(address, buf), buf.len() = MaxBuf.  Nothing looks at the
\* address before read_mem does (line 95): the model draws it there, in Seek.
Call(t) ==
    /\ thr[t].pc = "idle"
    /\ thr' = [thr EXCEPT ![t] = [IdleThread EXCEPT !.pc = "check"]]
    /\ UNCHANGED <<rwlock, memcell, notRead>>

\* the same call made while no other thread is inside read
CallAlone(t) ==
    /\ \A u \in Threads : thr[u].pc = "idle"
    /\ thr' = [thr EXCEPT ![t] = [IdleThread EXCEPT !.pc = "check"]]
    /\ UNCHANGED <<rwlock, memcell, notRead>>

\* line 91: self.mem.read().unwrap()
LockCheck(t) ==
    /\ thr[t].pc = "check"
    /\ can_read(rwlock)
    /\ rwlock' = lock_read(rwlock, t)
    /\ thr' = [thr EXCEPT ![t].pc = "is_none"]
    /\ UNCHANGED <<memcell, notRead>>

\* line 91: .is_none(), then the temporary guard is dropped
IsNone(t) ==
    /\ thr[t].pc = "is_none"
    /\ rwlock' = check_guard_dropped(rwlock, t)
    /\ thr' = [thr EXCEPT ![t].saw = is_none(memcell),
                          ![t].pc = IF is_none(memcell) THEN "open" ELSE "lock_body"]
    /\ UNCHANGED <<memcell, notRead>>

\* line 92, the assigned value: File::open("/proc/<pid>/mem").ok()?
OpenMem(t) ==
    /\ thr[t].pc = "open"
    /\ IF target.alive
       THEN /\ memcell' = [memcell EXCEPT !.opens = @ + 1]
            /\ thr' = [thr EXCEPT ![t].tried = TRUE, ![t].pc = "lock_install"]
       ELSE \* `?`: read returns None
            /\ thr' = [thr EXCEPT ![t].tried = TRUE, ![t].tag = "None", ![t].pc = "return"]
            /\ UNCHANGED memcell
    /\ UNCHANGED <<rwlock, notRead>>

\* line 92, the place: self.mem.write().unwrap()
LockInstall(t) ==
    /\ thr[t].pc = "lock_install"
    /\ can_write(rwlock)
    /\ rwlock' = lock_write(rwlock, t)
    /\ thr' = [thr EXCEPT ![t].pc = "install"]
    /\ UNCHANGED <<memcell, notRead>>

\* line 92: the assignment (the File that was in the cell, if any, is dropped),
\* then the guard is dropped
Install(t) ==
    /\ thr[t].pc = "install"
    /\ memcell' = [memcell EXCEPT !.file = t, !.pos = 0, !.installs = @ + 1]
    /\ rwlock' = unlock(rwlock, t)
    /\ thr' = [thr EXCEPT ![t].pc = "lock_body"]
    /\ UNCHANGED notRead

\* line 94: self.mem.write().unwrap()
LockBody(t) ==
    /\ thr[t].pc = "lock_body"
    /\ body_access(rwlock, t).ok
    /\ rwlock' = body_access(rwlock, t).g
    /\ thr' = [thr EXCEPT ![t].pc = "seek"]
    /\ UNCHANGED <<memcell, notRead>>

\* lines 94-95, 87: as_mut(); on Some(f) read_mem seeks f to the call's address
Seek(t) ==
    \E address \in ThreadAddrs :
    /\ thr[t].pc = "seek"
    /\ IF memcell.file = 0
       THEN \* and_then on None
            /\ thr' = [thr EXCEPT ![t].tag = "None", ![t].pc = "return"]
            /\ UNCHANGED memcell
       ELSE /\ memcell' = [memcell EXCEPT !.pos = address]
            /\ thr' = [thr EXCEPT ![t].address = address, ![t].pc = "read"]
    /\ UNCHANGED <<rwlock, notRead>>

\* lines 87, 96: mem.read(buf) at the File's position, unwrap_or(0); the result
ReadFile(t) ==
    /\ thr[t].pc = "read"
    /\ LET m   == read_at(target.alive, memcell.pos, MaxBuf)
           buf == [i \in 1..MaxBuf |-> IF i <= m.n THEN target.mem[m.at + i - 1] ELSE 0]
           r   == read_result(m.n, buf)
       IN  /\ memcell' = [memcell EXCEPT !.pos = m.pos]
           /\ thr' = [thr EXCEPT ![t].at = m.at, ![t].tag = r.tag, ![t].data = r.data,
                                 ![t].pc = "return"]
    /\ UNCHANGED <<rwlock, notRead>>

\* read returns (the `?` of line 92, or line 98): the guard of line 94, if the
\* call took it, is dropped; the value returned is with the caller
Return(t) ==
    /\ thr[t].pc = "return"
    /\ rwlock' = unlock(rwlock, t)
    /\ thr' = [thr EXCEPT ![t] = IdleThread]
    /\ UNCHANGED <<memcell, notRead>>

Steps(t) ==
    \/ LockCheck(t) \/ IsNone(t) \/ OpenMem(t) \/ LockInstall(t) \/ Install(t)
    \/ LockBody(t) \/ Seek(t) \/ ReadFile(t) \/ Return(t)

\* reads from any number of threads at once
NextRead == (\E t \in Threads : Call(t) \/ Steps(t)) \/ TargetExit

\* reads made one after another
NextReadSeq == (\E t \in Threads : CallAlone(t) \/ Steps(t)) \/ TargetExit

(***************************************************************************)
(* Windows: page protection, write_process_memory, MemoryIter              *)
(* (src/os/windows/mod.rs 318-378, 608-648)                                *)
(***************************************************************************)
PAGE_EXECUTE_READWRITE == 64
\* a page's protection: 0 for a page that is not committed, else PAGE_READONLY,
\* PAGE_READWRITE or PAGE_EXECUTE_READWRITE
Protections == {2, 4, PAGE_EXECUTE_READWRITE}
WinPageIds == 0..(WinPages - 1)
UserTop == WinPages * PageSize                  \* first address past the user space
WinAddrs == 0..UserTop
PageOf(address) == address \div PageSize
\* the pages of [address, address + size)
PagesOf(address, size) ==
    IF size = 0 THEN {} ELSE PageOf(address)..PageOf(address + size - 1)

\* VirtualProtectEx(handle, address, size, new, &mut old): fails, changing
\* nothing, for an empty range, an invalid protection or a range that holds a
\* page that is not committed; else sets every page of the range and stores
\* the previous protection of the FIRST page of the range
VirtualProtectEx(p, address, size, new) ==
    LET pages == PagesOf(address, size)
        ok    == /\ size > 0 /\ new \in Protections
                 /\ \A g \in pages : g \in WinPageIds /\ p[g] # 0
    IN  IF ok THEN [ok |-> TRUE, old |-> p[PageOf(address)],
                    prot |-> [g \in WinPageIds |-> IF g \in pages THEN new ELSE p[g]]]
        ELSE [ok |-> FALSE, old |-> 0, prot |-> p]

\* WriteProcessMemory: succeeds when the handle may write and every page of the
\* range is committed and writable
WriteProcessMemory(p, vmWrite, address, size) ==
    /\ vmWrite
    /\ \A g \in PagesOf(address, size) :
          g \in WinPageIds /\ p[g] \in {4, PAGE_EXECUTE_READWRITE}

BaseCall == [op |-> "none", addr |-> 0, len |-> 0, before |-> <<>>,
             relaxed |-> FALSE, wrote |-> FALSE, ok |-> FALSE, ret |-> 0]

InitWinMem ==
    /\ prot = [g \in WinPageIds |-> IF g = WinPages - 1 THEN 0 ELSE 4]
    /\ wcall = BaseCall
    /\ iter = [start |-> 0, address |-> 0, yielded |-> <<>>, ended |-> FALSE]

\* Process::protect_memory (lines 608-618)
ProtectMemory ==
    \E address \in WinAddrs, size \in 0..MaxBuf, attr \in Protections :
    LET r == VirtualProtectEx(prot, address, size, attr) IN
    /\ prot' = r.prot
    /\ wcall' = [BaseCall EXCEPT !.op = "protect", !.ok = r.ok, !.ret = r.old]
    /\ UNCHANGED <<iter, notWinMem>>

\* write_process_memory (lines 318-345) under Process::write_memory (621-623)
WriteMemory ==
    \E address \in WinAddrs, len \in 0..MaxBuf, vmWrite \in BOOLEAN :
    LET r1          == VirtualProtectEx(prot, address, len, PAGE_EXECUTE_READWRITE)
        old_protect == IF r1.ok THEN r1.old ELSE 0          \* line 320: 0u32
        result      == WriteProcessMemory(r1.prot, vmWrite, address, len)
        written     == IF result THEN len ELSE 0
        r2          == VirtualProtectEx(r1.prot, address, len, old_protect)
    IN
    /\ prot' = r2.prot
    /\ wcall' = [BaseCall EXCEPT !.op = "write", !.addr = address, !.len = len,
                   !.before = prot, !.relaxed = r1.ok, !.wrote = result,
                   !.ok = result, !.ret = IF result THEN written ELSE 0]
    /\ UNCHANGED <<iter, notWinMem>>

\* Process::virtual_query (lines 640-648): None where VirtualQueryEx reports
\* nothing (past the user space); else the region that starts at the page of
\* the address and runs while the pages have the same attributes
RECURSIVE same_run(_, _)
same_run(p, g) ==
    IF g + 1 \in WinPageIds /\ p[g + 1] = p[g] THEN 1 + same_run(p, g + 1) ELSE 1
virtual_query(p, address) ==
    IF address >= UserTop THEN [some |-> FALSE, base |-> 0, size |-> 0]
    ELSE [some |-> TRUE, base |-> PageOf(address) * PageSize,
          size |-> same_run(p, PageOf(address)) * PageSize]

\* mutant: the probe moves on by one page, not by the region's size
advance_one_page(address, m) == address + PageSize

\* line 374: self.address += m.size
advance(address, m) == address + m.size

\* Process::enum_memory (lines 625-630)
EnumMemory ==
    \E address \in 0..(UserTop + 1) :
    /\ iter' = [start |-> address, address |-> address, yielded |-> <<>>,
                ended |-> FALSE]
    /\ UNCHANGED <<prot, wcall, notWinMem>>

\* <MemoryIter as Iterator>::next (lines 371-377)
MemoryIterNext ==
    LET result == virtual_query(prot, iter.address) IN
    /\ iter' = IF result.some
               THEN [iter EXCEPT !.address = advance(iter.address, result),
                                 !.yielded = Append(@, [base |-> result.base,
                                                        size |-> result.size])]
               ELSE [iter EXCEPT !.ended = TRUE]
    /\ UNCHANGED <<prot, wcall, notWinMem>>

NextWinWrite == ProtectMemory \/ WriteMemory

NextEnumMemory == ProtectMemory \/ EnumMemory \/ MemoryIterNext

(***************************************************************************)
(* Windows: Handle ownership  (src/os/windows/mod.rs 43-100, 347-350,      *)
(* 411-450)                                                                *)
(***************************************************************************)
HandleIds == 1..MaxHandles
PSEUDO == 0         \* GetCurrentProcess(): the pseudo handle, no kernel handle behind it

\* a kernel handle slot: free, or acquired (open, then closed); the live Handle
\* objects that wrap it; the CloseHandle calls made on it; how it was acquired
FreeSlot == [state |-> "free", owners |-> 0, closes |-> 0, origin |-> "none",
             src |-> 0, rejected |-> FALSE]
Acquired(origin, src) ==
    [state |-> "open", owners |-> 1, closes |-> 0, origin |-> origin,
     src |-> src, rejected |-> FALSE]
HasFree == \E id \in HandleIds : handles[id].state = "free"
Fresh == CHOOSE id \in HandleIds :
            handles[id].state = "free" /\ \A j \in 1..(id - 1) : handles[j].state # "free"

\* <Handle as Drop>::drop (lines 94-100): CloseHandle(self.0), the object is gone
drop_handle(h, id) ==
    [h EXCEPT ![id].owners = @ - 1, ![id].closes = @ + 1, ![id].state = "closed"]

\* mutant: the rejected handle is forgotten, not dropped (as if from_handle took
\* the raw HANDLE)
from_handle_leak(h, id, pid) ==
    IF pid = 0 THEN [h EXCEPT ![id].owners = 0, ![id].rejected = TRUE] ELSE h

\* Process::from_handle (lines 437-446): GetProcessId(*handle) == 0 returns None
\* and the Handle passed by value is dropped; else it moves into the Process
from_handle(h, id, pid) ==
    IF pid = 0 THEN drop_handle([h EXCEPT ![id].rejected = TRUE], id) ELSE h

InitHandle ==
    /\ handles = [id \in HandleIds |-> FreeSlot]
    /\ current = 0
    /\ hlast = "none"

\* Process::open (lines 411-420)
Open ==
    \E opened \in BOOLEAN, pid \in {0, 1} :
    IF ~opened                                  \* OpenProcess returned null
    THEN /\ hlast' = "open_none"
         /\ UNCHANGED <<handles, current, notHandle>>
    ELSE /\ HasFree
         /\ handles' = from_handle([handles EXCEPT ![Fresh] = Acquired("open", 0)],
                                   Fresh, pid)
         /\ hlast' = IF pid = 0 THEN "open_rejected" ELSE "open_some"
         /\ UNCHANGED <<current, notHandle>>

\* Process::from_handle on a Handle the caller acquired (from_raw_handle)
FromHandle ==
    \E pid \in {0, 1} :
    /\ HasFree
    /\ handles' = from_handle([handles EXCEPT ![Fresh] = Acquired("raw", 0)], Fresh, pid)
    /\ hlast' = IF pid = 0 THEN "from_handle_none" ELSE "from_handle_some"
    /\ UNCHANGED <<current, notHandle>>

\* Process::current (lines 448-450)
Current ==
    /\ current < MaxCurrent
    /\ current' = current + 1
    /\ hlast' = "current"
    /\ UNCHANGED <<handles, notHandle>>

\* <Process as Clone>::clone -> <Handle as Clone>::clone -> clone_from_raw
\* (lines 64-92, 347): DuplicateHandle gives a new handle, or expect("clone") panics
CloneProcess ==
    \E src \in {id \in HandleIds : handles[id].owners > 0}
               \cup (IF current > 0 THEN {PSEUDO} ELSE {}),
       duplicated \in BOOLEAN :
    IF ~duplicated
    THEN /\ hlast' = "clone_panic"
         /\ UNCHANGED <<handles, current, notHandle>>
    ELSE /\ HasFree
         /\ handles' = [handles EXCEPT ![Fresh] = Acquired("dup", src)]
         /\ hlast' = "clone"
         /\ UNCHANGED <<current, notHandle>>

\* a Process is dropped: its Handle is dropped
DropProcess ==
    \/ \E id \in HandleIds :
          /\ handles[id].owners > 0
          /\ handles' = drop_handle(handles, id)
          /\ hlast' = "drop"
          /\ UNCHANGED <<current, notHandle>>
    \/ /\ current > 0                           \* CloseHandle(pseudo handle): no effect
       /\ current' = current - 1
       /\ hlast' = "drop_current"
       /\ UNCHANGED <<handles, notHandle>>

NextHandle == Open \/ FromHandle \/ Current \/ CloneProcess \/ DropProcess

(***************************************************************************)
(* Windows: create_debug_process  (src/os/windows/mod.rs 767-843)          *)
(***************************************************************************)
\* a free slot of a handle table, the lowest
HasFreeIn(h) == \E id \in HandleIds : h[id].state = "free"
FreshIn(h) == CHOOSE id \in HandleIds :
                 h[id].state = "free" /\ \A j \in 1..(id - 1) : h[j].state # "free"

\* line 809: `let mut handle = OpenProcess(PROCESS_CREATE_PROCESS, 0, ppid)`: a
\* raw HANDLE, which no Handle object owns
ParentHandle == [Acquired("parent", 0) EXCEPT !.owners = 0]

\* lines 838-842: r == 0 returns Err(UDbgError::system()); else pi.hProcess is
\* wrapped in a Handle and given to Process::from_handle, and `.last_error()?`
\* turns its None into Err.  (pi.hThread stays in the caller's pi.)
create_tail(h, created, pid) ==
    IF ~created THEN [ok |-> TRUE, h |-> h, ret |-> "create_err_system"]
    ELSE IF ~HasFreeIn(h) THEN [ok |-> FALSE, h |-> h, ret |-> "none"]
    ELSE [ok  |-> TRUE,
          h   |-> from_handle([h EXCEPT ![FreshIn(h)] = Acquired("raw", 0)],
                              FreshIn(h), pid),
          ret |-> IF pid = 0 THEN "create_err_last_error" ELSE "create_ok"]

\* create_debug_process(path, cwd, args, pi, ppid)
CreateDebugProcess ==
    \E ppid \in {"None", "Some"}, opened, updated, created \in BOOLEAN, pid \in {0, 1} :
    IF ppid = "Some" /\ ~opened
    THEN \* line 810: OpenProcess returned null, `?` returns Err("ppid open failed")
         /\ hlast' = "create_err_ppid_open"
         /\ UNCHANGED <<handles, current, notHandle>>
    ELSE IF ppid = "Some" /\ ~updated
    THEN \* lines 816-827: UpdateProcThreadAttribute failed
         /\ HasFree
         /\ handles' = [handles EXCEPT ![Fresh] = ParentHandle]
         /\ hlast' = "create_err_set_ppid"
         /\ UNCHANGED <<current, notHandle>>
    ELSE LET h1 == IF ppid = "Some"
                   THEN [handles EXCEPT ![Fresh] = ParentHandle]
                   ELSE handles
             r  == create_tail(h1, created, pid)
         IN  \* lines 830-842: CreateProcessW, DeleteProcThreadAttributeList, the result
             /\ ppid = "Some" => HasFree
             /\ r.ok
             /\ handles' = r.h
             /\ hlast' = r.ret
             /\ UNCHANGED <<current, notHandle>>

\* create_debug_process among the other operations on Handles
NextCreate == CreateDebugProcess \/ Open \/ FromHandle \/ Current \/ CloneProcess \/ DropProcess

(***************************************************************************)
(* Windows: ProcessInfo::enumerate over the toolhelp process snapshot      *)
(* (src/os/windows/mod.rs 104-153, 224-235, 845-866)                       *)
(***************************************************************************)
ProcessInfo(pid, name, wow64, path, cmdline, opened) ==
    [pid |-> pid, name |-> name, wow64 |-> wow64, path |-> path,
     cmdline |-> cmdline, opened |-> opened]

\* mutant: filter_map in place of map, an entry that cannot be opened yields nothing
enumerate_item_skip(pid, opened, wow64, pathOk, cmdOk) ==
    IF opened
    THEN <<ProcessInfo(pid, "name", wow64, IF pathOk THEN "path" ELSE "",
                       IF cmdOk THEN "cmdline" ELSE "", TRUE)>>
    ELSE <<>>

\* the closure of lines 849-864 on one snapshot entry: the elements it yields.
\* `opened`: Process::open gave Some (kept in the element as history)
enumerate_item(pid, opened, wow64, pathOk, cmdOk) ==
    LET result == ProcessInfo(pid, "name", FALSE, "", "", opened) IN
    IF opened
    THEN <<[result EXCEPT !.wow64 = wow64,
                          !.path = IF pathOk THEN "path" ELSE @,
                          !.cmdline = IF cmdOk THEN "cmdline" ELSE @]>>
    ELSE <<result>>

InitWalk ==
    walk = [snap |-> <<>>, count |-> 0, out |-> <<>>, ended |-> TRUE]

\* ProcessInfo::enumerate -> enum_process: a snapshot of the processes 1..n
\* (none when CreateToolhelp32Snapshot fails)
Enumerate ==
    \E n \in 0..MaxSnap :
    /\ walk' = [snap |-> [i \in 1..n |-> i], count |-> 0, out |-> <<>>,
                ended |-> FALSE]
    /\ UNCHANGED notWalk

\* one next() of the iterator: ToolHelperIter::next_item (lines 130-140), then
\* the closure
WalkNext ==
    /\ ~walk.ended
    /\ \E opened \in BOOLEAN :
       \E wow64 \in (IF opened THEN BOOLEAN ELSE {FALSE}),
          pathOk \in (IF opened THEN BOOLEAN ELSE {FALSE}),
          cmdOk \in (IF opened THEN BOOLEAN ELSE {FALSE}) :
       LET success == walk.count < Len(walk.snap)     \* Process32FirstW / NextW
       IN  walk' = IF success
                   THEN [walk EXCEPT !.count = @ + 1,
                           !.out = @ \o enumerate_item(walk.snap[walk.count + 1],
                                                       opened, wow64, pathOk, cmdOk)]
                   ELSE [walk EXCEPT !.count = @ + 1, !.ended = TRUE]
    /\ UNCHANGED notWalk

NextWalk == Enumerate \/ WalkNext

(***************************************************************************)
(* Specifications                                                          *)
(***************************************************************************)
Init == InitWait /\ InitLinux /\ InitWinMem /\ InitHandle /\ InitWalk /\ InitRead

Next == \/ NextWait \/ NextLinux \/ NextWinWrite \/ NextEnumMemory \/ NextHandle
        \/ NextCreate \/ NextWalk \/ NextRead \/ NextReadSeq

Spec == Init /\ [][Next]_vars

SpecWait == Init /\ [][NextWait]_vars

SpecLinux == Init /\ [][NextLinux]_vars

SpecWinWrite == Init /\ [][NextWinWrite]_vars

SpecEnumMemory == Init /\ [][NextEnumMemory]_vars

SpecHandle == Init /\ [][NextHandle]_vars

SpecCreate == Init /\ [][NextCreate]_vars

SpecWalk == Init /\ [][NextWalk]_vars

SpecRead == Init /\ [][NextRead]_vars

SpecReadSeq == Init /\ [][NextReadSeq]_vars

\* Fair scheduling of the threads inside read: a thread that can take a step
\* takes it (WF); a thread that asks for the lock gets it if the lock is free
\* again and again (SF).  Calling read is never forced.
Running(t) ==
    \/ IsNone(t) \/ OpenMem(t) \/ Install(t) \/ Seek(t) \/ ReadFile(t) \/ Return(t)
Acquiring(t) == LockCheck(t) \/ LockInstall(t) \/ LockBody(t)
FairRead == \A t \in Threads : WF_vars(Running(t)) /\ SF_vars(Acquiring(t))

SpecReadFair == Init /\ [][NextRead]_vars /\ FairRead

(***************************************************************************)
(* C1: for every raw status delivered by waitpid, wait returns the entry   *)
(* of the ordered table: Exit(WEXITSTATUS) for a normal exit, else         *)
(* Signal(WTERMSIG), else for a stop Clone(the tid fetched by GETEVENTMSG, *)
(* a failed GETEVENTMSG being fatal) / Exec / Stop(WSTOPSIG) by the upper  *)
(* 16 bits, else Continue, else fatal.                                     *)
(***************************************************************************)
WaitTable(status, pret, msg) ==
    IF WIFEXITED(status) THEN WaitStatus("Exit", WEXITSTATUS(status))
    ELSE IF WIFSIGNALED(status) THEN WaitStatus("Signal", WTERMSIG(status))
    ELSE IF WIFSTOPPED(status) THEN
        CASE (status \div 65536) % 65536 = PTRACE_EVENT_CLONE ->
                 IF pret < 0 THEN WaitStatus("panic_geteventmsg", 0)
                 ELSE WaitStatus("Clone", msg)
          [] (status \div 65536) % 65536 = PTRACE_EVENT_EXEC -> WaitStatus("Exec", 0)
          [] OTHER -> WaitStatus("Stop", WSTOPSIG(status))
    ELSE IF WIFCONTINUED(status) THEN WaitStatus("Continue", 0)
    ELSE WaitStatus("panic_invalid", 0)

C1_WaitFollowsTable ==
    (wait.called /\ wait.tid > 0) =>
        wait.ret = WaitTable(wait.status, wait.pret, wait.msg)

(***************************************************************************)
(* C2: read(address, buf) returns Some(prefix of buf of length n) with     *)
(* 1 <= n <= buf.len(), n the count read, or None when the count is 0 or   *)
(* the channel could not be opened; never Some of an empty slice, never a  *)
(* panic, on Linux and on Windows.                                         *)
(***************************************************************************)
C2_ReadSomePrefixOrNone ==
    lastOp.op \in {"read", "win_read"} =>
        /\ lastOp.tag \in {"Some", "None"}
        /\ lastOp.tag = "Some" =>
              /\ 1 <= Len(lastOp.data) /\ Len(lastOp.data) <= lastOp.len
              /\ Len(lastOp.data) = lastOp.n
              /\ lastOp.data = SubSeq(lastOp.input, 1, lastOp.n)
        /\ lastOp.tag = "None" <=> lastOp.n = 0
        /\ ~lastOp.ok => lastOp.tag = "None"

\* a short read: fewer bytes than asked for, returned as a non-empty prefix
C2_Witness ==
    /\ lastOp.op = "read" /\ lastOp.tag = "Some"
    /\ Len(lastOp.data) < lastOp.len

(***************************************************************************)
(* C5: if write(addr, bytes) returns Some(bytes.len()), the read(addr, buf)*)
(* of the same length that immediately follows returns a slice equal to    *)
(* bytes, whatever reads and writes came before.                           *)
(***************************************************************************)
C5_RoundTripAnyBytes ==
    (lastOp.op = "read" /\ lastOp.follows) =>
        (lastOp.tag = "Some" /\ lastOp.data = lastOp.wbytes)

\* C5 as amended: the same for every non-empty byte string (after a write of
\* no bytes, which returns Some(0), the read returns None)
C5_RoundTripNonEmpty ==
    (lastOp.op = "read" /\ lastOp.follows /\ Len(lastOp.wbytes) >= 1) =>
        (lastOp.tag = "Some" /\ lastOp.data = lastOp.wbytes)

\* a write of two bytes at address 0, then the read that returns them
C5_Witness ==
    /\ lastOp.op = "read" /\ lastOp.follows /\ lastOp.tag = "Some"
    /\ lastOp.wbytes = <<1, 1>> /\ lastOp.data = <<1, 1>> /\ lastOp.addr = 0

(***************************************************************************)
(* C6: on a Process whose target has exited every accessor returns an      *)
(* empty / None result and none panics: name and image_path None, cmdline  *)
(* an empty vector, environ an empty map, enum_thread no element, read     *)
(* None, write None.                                                       *)
(***************************************************************************)
C6_DeadTargetEmptyOrNone ==
    lastOp.dead =>
        /\ lastOp.tag # "Panic"
        /\ lastOp.op \in {"name", "image_path", "read", "write"} => lastOp.tag = "None"
        /\ lastOp.op = "cmdline" => (lastOp.tag = "Vec" /\ lastOp.list = <<>>)
        /\ lastOp.op = "environ" => (lastOp.tag = "Map" /\ DOMAIN lastOp.map = {})
        /\ lastOp.op = "enum_thread" => (lastOp.tag = "Iter" /\ lastOp.data = <<>>)

\* a read through the channel that was opened while the target was alive
C6_Witness ==
    lastOp.dead /\ lastOp.op = "read" /\ chan.open /\ lastOp.len > 0

(***************************************************************************)
(* C7: environ() returns a populated map: for every NUL-separated          *)
(* NAME=VALUE record of /proc/<pid>/environ the map holds NAME -> VALUE,   *)
(* VALUE keeping the "=" it contains.                                      *)
(***************************************************************************)
\* the records of a file that have the form NAME=VALUE
EnvRecords(file) ==
    LET toks == split(file, NUL) IN
    {toks[i] : i \in {j \in 1..Len(toks) : \E k \in 1..Len(toks[j]) : toks[j][k] = EQ}}
EnvEq(rec)    == CHOOSE k \in 1..Len(rec) : rec[k] = EQ /\ \A j \in 1..(k - 1) : rec[j] # EQ
EnvName(rec)  == SubSeq(rec, 1, EnvEq(rec) - 1)
EnvValue(rec) == SubSeq(rec, EnvEq(rec) + 1, Len(rec))

C7_EnvironPopulated ==
    (lastOp.op = "environ" /\ lastOp.ok) =>
        \A rec \in EnvRecords(lastOp.input) :
            /\ EnvName(rec) \in DOMAIN lastOp.map
            /\ lastOp.map[EnvName(rec)] = EnvValue(rec)

(***************************************************************************)
(* C8: process_cmdline returns the NUL-separated tokens of the file in     *)
(* order with exactly the maximal run of trailing empty tokens removed:    *)
(* the result never ends with an empty string, interior empty tokens stay, *)
(* joining with NULs and re-splitting gives the result plus at most one    *)
(* trailing empty token; an unreadable file gives the empty sequence.      *)
(***************************************************************************)
RECURSIVE JoinNul(_)
JoinNul(toks) ==
    IF toks = <<>> THEN <<>>
    ELSE IF Len(toks) = 1 THEN toks[1]
    ELSE toks[1] \o <<NUL>> \o JoinNul(Tail(toks))

\* the tokens of a file, cut at each NUL, stated without the recursion of split
NulPositions(file) == {i \in 1..Len(file) : file[i] = NUL}
TokenCount(file) == Cardinality(NulPositions(file)) + 1
TokenAt(file, k) ==
    LET cuts  == NulPositions(file)
        start == IF k = 1 THEN 1
                 ELSE 1 + CHOOSE i \in cuts : Cardinality({j \in cuts : j <= i}) = k - 1
        stop  == IF k = TokenCount(file) THEN Len(file)
                 ELSE (CHOOSE i \in cuts : Cardinality({j \in cuts : j <= i}) = k) - 1
    IN  SubSeq(file, start, stop)

C8_CmdlineTrimmed ==
    lastOp.op = "cmdline" =>
        LET res  == lastOp.list
            file == IF lastOp.ok THEN lastOp.input ELSE <<>>
            n    == Len(res)
        IN
        /\ n <= TokenCount(file)
        /\ \A k \in 1..n : res[k] = TokenAt(file, k)
        /\ \A k \in (n + 1)..TokenCount(file) : TokenAt(file, k) = <<>>
        /\ n > 0 => res[n] # <<>>
        /\ split(JoinNul(res), NUL) \in {res, Append(res, <<>>)}
        /\ ~lastOp.ok => res = <<>>

\* the file "\0a\0": the leading empty token is kept, the trailing one removed
C8_Witness ==
    /\ lastOp.op = "cmdline" /\ lastOp.input = <<NUL, 97, NUL>>
    /\ lastOp.list = << <<>>, <<97>> >>

(***************************************************************************)
(* C3: after write_process_memory returns, the protection of every page of *)
(* [address, address + data.len()) equals its protection immediately       *)
(* before the call, on every path: write succeeded or failed, initial      *)
(* relax succeeded or failed.                                              *)
(***************************************************************************)
C3_ProtectionRestored ==
    wcall.op = "write" =>
        \A g \in PagesOf(wcall.addr, wcall.len) \cap WinPageIds :
            prot[g] = wcall.before[g]

(***************************************************************************)
(* C9: from every start address enum_memory yields regions that are        *)
(* pairwise non-overlapping and in strictly increasing base order, each    *)
(* advance moving the probe forward by the size of the region returned,    *)
(* and it ends at the first address for which VirtualQueryEx reports       *)
(* nothing.                                                                *)
(***************************************************************************)
RECURSIVE SumSizes(_)
SumSizes(ys) == IF ys = <<>> THEN 0 ELSE Head(ys).size + SumSizes(Tail(ys))

C9_RegionsIncreasingDisjoint ==
    LET ys == iter.yielded IN
    /\ \A i \in 1..Len(ys) : \A j \in (i + 1)..Len(ys) :
          /\ ys[i].base < ys[j].base
          /\ ys[i].base + ys[i].size <= ys[j].base
    /\ \A i \in 1..Len(ys) :
          \* the probe that produced region i lay inside it and below the top
          LET probe == iter.start + SumSizes(SubSeq(ys, 1, i - 1)) IN
          /\ ys[i].base <= probe /\ probe < ys[i].base + ys[i].size
          /\ probe < UserTop
    /\ iter.address = iter.start + SumSizes(ys)
    /\ iter.ended => iter.address >= UserTop

\* a finished walk of two regions or more that started inside a region, off a
\* page boundary
C9_Witness ==
    /\ iter.ended /\ Len(iter.yielded) >= 2
    /\ iter.start % PageSize # 0
    /\ iter.yielded[1].size > PageSize

(***************************************************************************)
(* C4: over any sequence of Process::open, from_handle, clone and drop,    *)
(* every kernel handle acquired is passed to CloseHandle exactly once,     *)
(* when the Handle that owns it is dropped (also when from_handle rejects  *)
(* it), never zero times or twice; a duplicate owns a distinct kernel      *)
(* handle, which dropping the original does not close.                     *)
(***************************************************************************)
C4_ClosedExactlyOnce ==
    \A id \in HandleIds :
        handles[id].state # "free" =>
            /\ handles[id].closes <= 1
            \* owned by one live Handle and not closed, or dropped and closed once
            /\ handles[id].owners + handles[id].closes = 1
            /\ handles[id].state = "closed" <=> handles[id].closes = 1
            /\ handles[id].rejected => handles[id].closes = 1
            /\ handles[id].origin = "dup" => handles[id].src # id

\* a handle closed on from_handle's None path, and a live duplicate whose
\* original has been dropped
C4_Witness ==
    /\ \E id \in HandleIds : handles[id].rejected /\ handles[id].closes = 1
    /\ \E id \in HandleIds :
          /\ handles[id].origin = "dup" /\ handles[id].state = "open"
          /\ handles[id].src \in HandleIds
          /\ handles[handles[id].src].state = "closed"

(***************************************************************************)
(* C10: process enumeration tolerates per-entry failures: a process that   *)
(* cannot be opened when the walk reaches it is skipped, no element is     *)
(* yielded for it, and the iteration is never aborted, every later entry   *)
(* of the snapshot is still produced.                                      *)
(***************************************************************************)
C10_FailedEntrySkipped ==
    \* no element for a process that could not be opened
    /\ \A k \in 1..Len(walk.out) : walk.out[k].opened
    \* the walk ends only when the snapshot is exhausted
    /\ walk.ended => walk.count = Len(walk.snap) + 1

\* C10 as amended: every entry of the snapshot yields one element, in order; for
\* a process that cannot be opened the element carries the snapshot's pid and
\* name with wow64 false and empty path and cmdline; the walk ends only after
\* the last entry
C10_EveryEntryYielded ==
    /\ Len(walk.out) = (IF walk.count <= Len(walk.snap) THEN walk.count
                        ELSE Len(walk.snap))
    /\ \A k \in 1..Len(walk.out) :
          /\ walk.out[k].pid = walk.snap[k] /\ walk.out[k].name = "name"
          /\ ~walk.out[k].opened =>
                (~walk.out[k].wow64 /\ walk.out[k].path = "" /\ walk.out[k].cmdline = "")
    /\ walk.ended => Len(walk.out) = Len(walk.snap)

\* a finished walk whose second process could not be opened and whose third was
C10_Witness ==
    /\ walk.ended /\ Len(walk.out) = 3
    /\ ~walk.out[2].opened /\ walk.out[3].opened /\ walk.out[3].path = "path"

(***************************************************************************)
(* C11: for reads made one after another on one Process: from_pid opens    *)
(* nothing; a read that finds the cell empty calls File::open, and only    *)
(* such a read does; once an open has succeeded and its File is installed, *)
(* no later read opens /proc/<pid>/mem again or replaces the installed     *)
(* File, and every later read reads through that File.                     *)
(***************************************************************************)
\* a thread that is past lines 91-93 of its call
PastInstall(t) == thr[t].pc \in {"lock_body", "seek", "read", "return"}

C11_ChannelCached ==
    \* before any read (the target alive, no call in progress, nothing
    \* installed): from_pid has opened nothing
    /\ (target.alive /\ memcell.file = 0 /\ \A t \in Threads : thr[t].pc = "idle") =>
          memcell.opens = 0 /\ memcell.installs = 0
    \* every open is made by a read, which then installs its File
    /\ memcell.opens = memcell.installs
          + Cardinality({t \in Threads : thr[t].pc \in {"lock_install", "install"}})
    \* one successful open at most, installed once, never replaced
    /\ memcell.opens <= 1
    /\ memcell.installs <= 1
    /\ memcell.file # 0 <=> memcell.installs = 1
    /\ \A t \in Threads :
          \* File::open is called by a read exactly when it found the cell empty
          /\ thr[t].pc \notin {"idle", "check", "is_none", "open"} =>
                (thr[t].tried <=> thr[t].saw)
          \* whoever gets past the `if` finds the one File ever installed
          /\ PastInstall(t) /\ ~(thr[t].pc = "return" /\ ~Holds(t)) =>
                memcell.file # 0 /\ memcell.installs = 1

\* a later read, at the other end of the File, that found the File installed
\* by the first read and has read through it
C11_Witness ==
    \E u \in Threads :
        /\ thr[u].pc = "return" /\ ~thr[u].saw /\ ~thr[u].tried
        /\ thr[u].tag = "Some" /\ thr[u].at = MemTop - 1
        /\ memcell.file \notin {0, u}
        /\ memcell.opens = 1 /\ memcell.installs = 1

(***************************************************************************)
(* C12: once the channel is installed, reads from different threads take   *)
(* only shared access to the guard: exclusive access is held only by a     *)
(* read that is installing the channel (line 92), never by a read that is  *)
(* using it (lines 94-97).                                                 *)
(***************************************************************************)
C12_SharedOnceInstalled ==
    \A t \in Threads : rwlock.writer = t => thr[t].pc = "install"

(***************************************************************************)
(* C13: when threads issue their first reads concurrently, under every     *)
(* interleaving /proc/<pid>/mem is opened and installed at most once: no   *)
(* thread installs a File over one that another thread has installed.      *)
(***************************************************************************)
C13_InstalledAtMostOnce ==
    /\ memcell.opens <= 1
    /\ memcell.installs <= 1
    /\ \A t \in Threads : thr[t].pc = "install" => memcell.file = 0

(***************************************************************************)
(* C14: concurrent reads through the cached channel do not interfere:      *)
(* under every interleaving, between a call's seek and its read no other   *)
(* call moves the File's position, so the read is made at the call's own   *)
(* address and a call that returns Some returns the target's bytes         *)
(* starting at its own address.                                            *)
(***************************************************************************)
C14_ReadsAtOwnAddress ==
    \A t \in Threads :
        \* after the seek, until the read, the position is this call's address
        /\ thr[t].pc = "read" => memcell.pos = thr[t].address
        \* one call at a time is between taking the guard of line 94 and its read
        /\ thr[t].pc \in {"seek", "read"} =>
              /\ rwlock.writer = t
              /\ \A u \in Threads \ {t} : thr[u].pc \notin {"seek", "read"}
        \* the read was made at the address asked for
        /\ thr[t].pc = "return" /\ Holds(t) => thr[t].at = thr[t].address
        /\ thr[t].tag = "Some" =>
              /\ Len(thr[t].data) >= 1
              /\ \A i \in 1..Len(thr[t].data) :
                    thr[t].data[i] = target.mem[thr[t].address + i - 1]

\* a call that has read at its address, which is not where the call before it
\* left the File, while another call waits for the guard of line 94
C14_Witness ==
    \E t, u \in Threads :
        /\ thr[t].pc = "return" /\ thr[t].tag = "Some" /\ thr[t].at = 0
        /\ ~thr[t].saw /\ memcell.file # t
        /\ thr[u].pc = "lock_body"

(***************************************************************************)
(* C15: read is deadlock-free: a thread that asks for exclusive access to  *)
(* the guard holds no access to it, no thread holds the guard while it     *)
(* opens /proc/<pid>/mem, and under fair scheduling every call of read, by *)
(* any thread, returns with the thread holding nothing (also when the open *)
(* fails).                                                                 *)
(***************************************************************************)
C15_NoGuardWhileWaiting ==
    \A t \in Threads :
        thr[t].pc \in {"idle", "check", "open", "lock_install", "lock_body"} => ~Holds(t)

C15_ReadReturns ==
    /\ []C15_NoGuardWhileWaiting
    /\ \A t \in Threads : (thr[t].pc # "idle") ~> (thr[t].pc = "idle" /\ ~Holds(t))

\* C15, for calls that are not overtaken for ever: the two safety parts, and
\* under fair scheduling every call of read returns with the thread holding
\* nothing unless threads go on calling read for ever
C15_ReadReturnsUnlessOvertaken ==
    /\ []C15_NoGuardWhileWaiting
    /\ \/ \A t \in Threads : (thr[t].pc # "idle") ~> (thr[t].pc = "idle" /\ ~Holds(t))
       \/ []<><<\E u \in Threads : Call(u)>>_vars

\* a thread that has opened the File asks for exclusive access while another
\* thread holds it for its read
C15_Witness ==
    \E t, u \in Threads :
        /\ t # u
        /\ thr[t].pc = "lock_install"
        /\ rwlock.writer = u /\ thr[u].pc = "read"

(***************************************************************************)
(* C16: wait returns Exit(code) only for a child that waitpid reported     *)
(* (tid > 0) as exited: a waitpid that fails (-1) or, with WNOHANG, finds  *)
(* no state change (0), and so leaves the status word at its initial 0, is *)
(* never returned to the caller as an Exit event.                          *)
(***************************************************************************)
C16_ExitOnlyForReportedChild ==
    wait.called /\ wait.ret.kind = "Exit" => wait.tid > 0

(***************************************************************************)
(* C17: create_debug_process called with a parent pid releases the parent  *)
(* handle it obtained from OpenProcess on every exit path (success,        *)
(* failure to open, failure of UpdateProcThreadAttribute, failure of       *)
(* CreateProcessW): once a call has returned, no parent handle is open.    *)
(***************************************************************************)
C17_ParentHandleReleased ==
    \A id \in HandleIds :
        handles[id].origin = "parent" => handles[id].state = "closed"

====
